---- MODULE Spec2Model ----
(***************************************************************************)
(* Model of covidbot's two message loops:                                  *)
(*   - SignalInterface (signal_interface.py): send_daily_reports,          *)
(*     send_message, backoff_timer, restart_service, message_handler;      *)
(*   - SingleCommandInterface (single_command_interface.py): run.          *)
(* Delays are fixed-point numbers, in units of 1/Scale seconds.            *)
(***************************************************************************)
EXTENDS Integers, Sequences, FiniteSets, TLC

\* ------------------------------------------------------------------ bounds
\* Longest explicit users list handed to send_message.
MaxBatch == 1
\* Number of daily reports published over a run of the model.
MaxReports == 2
\* Longest list of mentions one get_mentions call returns.
MaxMentions == 1

\* Signal users known to the user directory, in the order the directory lists them.
UserOrder == <<"u1", "u2", "u3">>
Recipients == {UserOrder[i] : i \in 1..Len(UserOrder)}

\* Fixed-point unit: a delay d stands for d / Scale seconds.
Scale == 10 ^ 4

\* Samples of random.uniform(0.5, 2): 0.5 s, 1.0 s, 1.5 s and 2.0 s.
InitialDelays == {Scale \div 2, Scale, (3 * Scale) \div 2, 2 * Scale}

\* ------------------------------------------------------------- pure helpers
\* All sequences over S of length at most n.
SeqsUpTo(S, n) == UNION {[1..k -> S] : k \in 0..n}

\* Python's int ^ int on non-negative integers: bitwise exclusive or.
RECURSIVE BitXor(_, _)
BitXor(a, b) ==
    IF a = 0 THEN b
    ELSE IF b = 0 THEN a
    ELSE (((a % 2) + (b % 2)) % 2) + 2 * BitXor(a \div 2, b \div 2)

\* math.ceil of a non-negative delay, as a whole number of seconds.
ceil(d) == (d + Scale - 1) \div Scale

\* 0.7 * current_backoff.
decay(d) == (7 * d) \div 10

\* Mutant of new_backoff: the decay threshold is >= 1 instead of > 1.
new_backoff_ge(current_backoff, failed) ==
    IF ~failed
    THEN IF current_backoff >= Scale THEN decay(current_backoff) ELSE current_backoff
    ELSE Scale * BitXor(2, ceil(current_backoff))

\* Mutant of new_backoff: the failure branch subtracts where the code xors.
new_backoff_minus(current_backoff, failed) ==
    IF ~failed
    THEN IF current_backoff > Scale THEN decay(current_backoff) ELSE current_backoff
    ELSE Scale * (ceil(current_backoff) - 2)

\* The value backoff_timer computes for new_backoff.
new_backoff(current_backoff, failed) ==
    IF ~failed
    THEN IF current_backoff > Scale THEN decay(current_backoff) ELSE current_backoff
    ELSE Scale * BitXor(2, ceil(current_backoff))

\* Mutant of backoff_timer: the sleep happens only after a failure.
backoff_timer_sleep_on_failure(current_backoff, failed, user_id, send_id) ==
    LET nb == new_backoff(current_backoff, failed) IN
    [calls |-> (IF failed THEN <<[op |-> "disable_user", send |-> send_id, user |-> user_id]>>
                ELSE <<>>)
               \o <<[op |-> "backoff_timer", send |-> send_id, cur |-> current_backoff,
                     failed |-> failed, ret |-> nb]>>
               \o (IF failed THEN <<[op |-> "sleep", send |-> send_id, d |-> nb]>> ELSE <<>>),
     ret |-> nb]

\* Mutant of backoff_timer: a failure does not disable the user.
backoff_timer_no_disable(current_backoff, failed, user_id, send_id) ==
    LET nb == new_backoff(current_backoff, failed) IN
    [calls |-> <<[op |-> "backoff_timer", send |-> send_id, cur |-> current_backoff,
                  failed |-> failed, ret |-> nb],
                 [op |-> "sleep", send |-> send_id, d |-> nb]>>,
     ret |-> nb]

\* Mutant of backoff_timer: the send of the appended report is not accounted.
backoff_timer_report_unaccounted(current_backoff, failed, user_id, send_id) ==
    LET nb == new_backoff(current_backoff, failed) IN
    IF send_id[2] = 2 THEN [calls |-> <<>>, ret |-> current_backoff]
    ELSE [calls |-> (IF failed
                     THEN <<[op |-> "disable_user", send |-> send_id, user |-> user_id]>>
                     ELSE <<>>)
                    \o <<[op |-> "backoff_timer", send |-> send_id, cur |-> current_backoff,
                          failed |-> failed, ret |-> nb],
                         [op |-> "sleep", send |-> send_id, d |-> nb]>>,
          ret |-> nb]

\* backoff_timer: the calls it makes (disable_user on failure, then time.sleep
\* of the new delay) and the delay it returns.  send_id names the send it
\* follows (item position, phase), kept for the record only.
backoff_timer(current_backoff, failed, user_id, send_id) ==
    LET nb == new_backoff(current_backoff, failed) IN
    [calls |-> (IF failed THEN <<[op |-> "disable_user", send |-> send_id, user |-> user_id]>>
                ELSE <<>>)
               \o <<[op |-> "backoff_timer", send |-> send_id, cur |-> current_backoff,
                     failed |-> failed, ret |-> nb],
                    [op |-> "sleep", send |-> send_id, d |-> nb]>>,
     ret |-> nb]

\* Mutant of confirm_calls: the success test is inverted.
confirm_calls_inverted(success, userid, send_id) ==
    IF ~success
    THEN <<[op |-> "confirm_daily_report_send", send |-> send_id, user |-> userid]>>
    ELSE <<>>

\* send_daily_reports: confirm_daily_report_send is called when the send succeeded.
confirm_calls(success, userid, send_id) ==
    IF success
    THEN <<[op |-> "confirm_daily_report_send", send |-> send_id, user |-> userid]>>
    ELSE <<>>

\* Mutant of next_item: the loop skips an item.
next_item_skip(counter) == counter + 2

\* The for loop's step to the next item of the list.
next_item(counter) == counter + 1

\* Mutant of batch_finished: the loop stops one item early.
batch_finished_early(counter, items) == counter >= Len(items) - 1

\* The for loop is exhausted: control leaves the async with block.
batch_finished(counter, items) == counter >= Len(items)

\* ------------------------------------------- SingleCommandInterface: helpers
\* Conversation ids of the mentions the messenger reports.
ChatIds == {1, 2}

\* district_id = None.
NoDistrict == -1

\* Mention texts, one character per element:
\*   "", "?!", "ulm", "ki,el.", "bad ems", "ich bin da ja", "kreis bad ems nord".
MentionTexts ==
    { <<>>,
      <<"?", "!">>,
      <<"u", "l", "m">>,
      <<"k", "i", ",", "e", "l", ".">>,
      <<"b", "a", "d", " ", "e", "m", "s">>,
      <<"i", "c", "h", " ", "b", "i", "n", " ", "d", "a", " ", "j", "a">>,
      <<"k", "r", "e", "i", "s", " ", "b", "a", "d", " ", "e", "m", "s", " ",
        "n", "o", "r", "d">> }

\* Answers of search_district_by_name: the ids of the matching districts, in
\* order; id 0 is the country.
SearchResults == {<<>>, <<0>>, <<1>>, <<1, 2>>, <<1, 2, 0>>}

\* Answers of find_location: the ids of the districts the places found lie
\* in; the lookup maps places to district polygons, which the country (id 0)
\* is not among.
FindResults == {<<>>, <<1>>, <<2>>, <<1, 2>>}

Whitespace == {" "}

\* message.replace(",", "").replace(".", "").replace("!", "").replace("?", "")
remove_punctuation(text) ==
    LET Keep(c) == c \notin {",", ".", "!", "?"} IN SelectSeq(text, Keep)

\* str.strip(): drop leading and trailing whitespace.
RECURSIVE lstrip(_)
lstrip(text) ==
    IF text # <<>> /\ Head(text) \in Whitespace THEN lstrip(Tail(text)) ELSE text

RECURSIVE rstrip(_)
rstrip(text) ==
    IF text # <<>> /\ text[Len(text)] \in Whitespace
    THEN rstrip(SubSeq(text, 1, Len(text) - 1)) ELSE text

strip(text) == rstrip(lstrip(text))

\* str.split(): the maximal runs of non-whitespace characters.
RECURSIVE split_from(_, _, _)
split_from(text, word, words) ==
    IF text = <<>>
    THEN IF word = <<>> THEN words ELSE Append(words, word)
    ELSE IF Head(text) \in Whitespace
         THEN split_from(Tail(text), <<>>, IF word = <<>> THEN words ELSE Append(words, word))
         ELSE split_from(Tail(text), Append(word, Head(text)), words)

split(text) == split_from(text, <<>>, <<>>)

\* The arguments run() derives from a mention's text.
arguments_of(message) == split(strip(remove_punctuation(message)))

\* " ".join(words)
RECURSIVE join(_)
join(words) ==
    IF words = <<>> THEN <<>>
    ELSE IF Len(words) = 1 THEN words[1]
    ELSE words[1] \o <<" ">> \o join(Tail(words))

\* Mutant of is_discarded: the token count test is off by one.
is_discarded_off_by_one(arguments) == Len(arguments[1]) < 4 /\ Len(arguments) > 4

\* The discard test of run(); evaluated only for a non-empty argument list.
is_discarded(arguments) == Len(arguments[1]) < 4 /\ Len(arguments) > 3

\* Python truthiness of district_id: None and 0 are false.
truthy(district_id) == district_id # NoDistrict /\ district_id # 0

Min(a, b) == IF a < b THEN a ELSE b

\* The gazetteer loop of run() for window sizes i, i-1, ..., 1: the calls made
\* and the district chosen.  search maps a window size to the index's answer.
RECURSIVE district_loop(_, _, _)
district_loop(arguments, search, i) ==
    IF i = 0 THEN [calls |-> <<>>, district_id |-> NoDistrict]
    ELSE LET argument == strip(join(SubSeq(arguments, 1, i)))
             districts_query == search[i]
             call == [op |-> "search_district_by_name", window |-> i,
                      argument |-> argument, found |-> Len(districts_query),
                      result |-> districts_query]
         IN IF districts_query # <<>> /\ Len(districts_query) <= 2
            THEN [calls |-> <<call>>, district_id |-> districts_query[1]]
            ELSE LET rest == district_loop(arguments, search, i - 1)
                 IN [calls |-> <<call>> \o rest.calls, district_id |-> rest.district_id]

\* Mutant of location_lookup: the restricted lookup accepts the first of
\* several hits.
location_lookup_first_of_many(arguments, find, district_id) ==
    IF truthy(district_id) THEN [calls |-> <<>>, district_id |-> district_id]
    ELSE LET first == [op |-> "find_location", restrict_type |-> FALSE,
                       text |-> join(arguments), found |-> Len(find[FALSE]),
                       result |-> find[FALSE]]
             second == [op |-> "find_location", restrict_type |-> TRUE,
                        text |-> join(arguments), found |-> Len(find[TRUE]),
                        result |-> find[TRUE]]
         IN IF Len(find[FALSE]) = 1
            THEN [calls |-> <<first>>, district_id |-> find[FALSE][1]]
            ELSE IF Len(find[FALSE]) > 1
                 THEN [calls |-> <<first, second>>,
                       district_id |-> IF Len(find[TRUE]) >= 1 THEN find[TRUE][1]
                                       ELSE district_id]
                 ELSE [calls |-> <<first>>, district_id |-> district_id]

\* The place lookup of run(), entered with the gazetteer's district_id: the
\* calls made and the district chosen.  find maps restrict_type to the answer.
location_lookup(arguments, find, district_id) ==
    IF truthy(district_id) THEN [calls |-> <<>>, district_id |-> district_id]
    ELSE LET first == [op |-> "find_location", restrict_type |-> FALSE,
                       text |-> join(arguments), found |-> Len(find[FALSE]),
                       result |-> find[FALSE]]
             second == [op |-> "find_location", restrict_type |-> TRUE,
                        text |-> join(arguments), found |-> Len(find[TRUE]),
                        result |-> find[TRUE]]
         IN IF Len(find[FALSE]) = 1
            THEN [calls |-> <<first>>, district_id |-> find[FALSE][1]]
            ELSE IF Len(find[FALSE]) > 1
                 THEN [calls |-> <<first, second>>,
                       district_id |-> IF Len(find[TRUE]) = 1 THEN find[TRUE][1]
                                       ELSE district_id]
                 ELSE [calls |-> <<first>>, district_id |-> district_id]

\* The reply of run(): built and written (or printed) for a truthy district_id.
answer_calls(chat_id, district_id, nowrite) ==
    IF truthy(district_id)
    THEN <<[op |-> "get_infection_tweet", district_id |-> district_id],
           [op |-> IF nowrite THEN "print" ELSE "write_message", reply_id |-> chat_id]>>
    ELSE <<>>

\* One pass of the loop body of run() over a mention that is not yet answered,
\* from its arguments on: the calls made, the district resolved and whether an
\* exception escaped (arguments[0] of an empty list raises IndexError).
handle_mention(chat_id, arguments, search, find, nowrite) ==
    IF arguments = <<>>
    THEN [calls |-> <<>>, district_id |-> NoDistrict, raised |-> TRUE]
    ELSE IF is_discarded(arguments)
    THEN [calls |-> <<[op |-> "set_message_answered", chat_id |-> chat_id]>>,
          district_id |-> NoDistrict, raised |-> FALSE]
    ELSE LET gaz == district_loop(arguments, search, Min(Len(arguments), 3))
             loc == location_lookup(arguments, find, gaz.district_id)
         IN [calls |-> gaz.calls \o loc.calls
                       \o answer_calls(chat_id, loc.district_id, nowrite)
                       \o <<[op |-> "set_message_answered", chat_id |-> chat_id]>>,
             district_id |-> loc.district_id, raised |-> FALSE]

\* Mutant of handler_calls: the sender is enabled after its text was processed.
handler_calls_enable_late(platform_id, has_body, is_user_activated) ==
    IF ~has_body THEN <<>>
    ELSE <<[op |-> "is_user_activated", user |-> platform_id, ret |-> is_user_activated]>>
         \o <<[op |-> "handle_input", user |-> platform_id]>>
         \o (IF ~is_user_activated
             THEN <<[op |-> "enable_user", user |-> platform_id]>>
             ELSE <<>>)

\* The calls of message_handler for one inbound message: nothing for a message
\* without body; otherwise the sender is enabled if the directory says it is
\* not activated, and then its text is processed.
handler_calls(platform_id, has_body, is_user_activated) ==
    IF ~has_body THEN <<>>
    ELSE <<[op |-> "is_user_activated", user |-> platform_id, ret |-> is_user_activated]>>
         \o (IF ~is_user_activated
             THEN <<[op |-> "enable_user", user |-> platform_id]>>
             ELSE <<>>)
         \o <<[op |-> "handle_input", user |-> platform_id]>>

\* ------------------------------ SingleCommandInterface.send_daily_reports
\* The kinds of report, each with an account of its own in the user directory.
Kinds == {"infections", "vaccinations", "icu"}

\* Mutant of report_calls: the last update is stored whatever write_message returned.
report_calls_store_always(kind, stored, date, nowrite, write_ok) ==
    <<[op |-> "get_user", kind |-> kind, last_update |-> stored, date |-> date]>>
    \o (IF stored < date
        THEN IF nowrite
             THEN <<[op |-> "print", kind |-> kind, date |-> date],
                    [op |-> "set_last_update", kind |-> kind, date |-> date]>>
             ELSE <<[op |-> "write_message", kind |-> kind, date |-> date, ok |-> write_ok],
                    [op |-> "set_last_update", kind |-> kind, date |-> date]>>
        ELSE <<>>)

\* One report block of send_daily_reports: the stored last update is read and
\* compared with the date of the data; an older one has the report written,
\* or printed under no_write, and the data's date stored after a print or a
\* successful write.
report_calls(kind, stored, date, nowrite, write_ok) ==
    <<[op |-> "get_user", kind |-> kind, last_update |-> stored, date |-> date]>>
    \o (IF stored < date
        THEN IF nowrite
             THEN <<[op |-> "print", kind |-> kind, date |-> date],
                    [op |-> "set_last_update", kind |-> kind, date |-> date]>>
             ELSE <<[op |-> "write_message", kind |-> kind, date |-> date, ok |-> write_ok]>>
                  \o (IF write_ok
                      THEN <<[op |-> "set_last_update", kind |-> kind, date |-> date]>>
                      ELSE <<>>)
        ELSE <<>>)

\* ------------------------------------------------------------------- state
VARIABLES
    activated,        \* user directory: recipient -> enabled flag
    lastConfirmed,    \* user directory: recipient -> last report confirmed as sent
    report,           \* number of the report currently published
    pc,               \* position of the dispatch task
    batch,            \* the running (or last) batch: operation, items, append_report
    message_counter,  \* items of the batch already processed
    phase,            \* send_message: 1 = message send, 2 = appended report send
    backoff_time,     \* current delay of the batch
    inflight,         \* sends awaiting their result
    log,              \* calls made by the running (or last) batch, in order
    delivered         \* recipient -> report -> successful daily report sends

dispatchVars == <<activated, lastConfirmed, report, pc, batch, message_counter, phase,
                  backoff_time, inflight, log, delivered>>

VARIABLES
    no_write,         \* SingleCommandInterface.no_write
    answered,         \* user directory: conversation ids marked answered
    runPc,            \* position of run(): "poll", "loop" or "raised"
    mentions,         \* mentions of the current round not yet iterated over
    handled,          \* the mention the loop body ran for last, and what it did
    marks,            \* conversation id -> set_message_answered calls
    replies           \* conversation id -> replies written or printed

runVars == <<no_write, answered, runPc, mentions, handled, marks, replies>>

VARIABLES
    inbound           \* the inbound message message_handler ran for last, and its calls

VARIABLES
    last_update,      \* user directory: report kind -> date stored as last update
    germany,          \* country data: report kind -> date of the data at hand
    written,          \* report kind -> data date -> reports written successfully
    daily_calls       \* calls of the last SingleCommandInterface.send_daily_reports

tweetVars == <<last_update, germany, written, daily_calls>>

vars == <<dispatchVars, inbound, runVars, tweetVars>>

\* Effect of the directory calls of a call sequence on the enabled flags.
ApplyDisable(act, calls) ==
    [r \in Recipients |->
        IF \E k \in 1..Len(calls) : calls[k].op = "disable_user" /\ calls[k].user = r
        THEN FALSE ELSE act[r]]

\* Effect of the enable_user calls of a call sequence on the enabled flags.
ApplyEnable(act, calls) ==
    [r \in Recipients |->
        IF \E k \in 1..Len(calls) : calls[k].op = "enable_user" /\ calls[k].user = r
        THEN TRUE ELSE act[r]]

\* Effect of the directory calls of a call sequence on the confirmations.
ApplyConfirm(conf, calls, rep) ==
    [r \in Recipients |->
        IF \E k \in 1..Len(calls) :
              calls[k].op = "confirm_daily_report_send" /\ calls[k].user = r
        THEN rep ELSE conf[r]]

\* Bot.get_unconfirmed_daily_reports: the enabled recipients whose last
\* confirmed report is older than the current one, in directory order.
get_unconfirmed_daily_reports ==
    LET Pending(r) == activated[r] /\ lastConfirmed[r] < report
    IN SelectSeq(UserOrder, Pending)

\* Bot.get_all_user, mapped to the platform ids: every user, in directory order.
get_all_user == UserOrder

\* No batch is running.
NoBatch == [op |-> "none", items |-> <<>>, append_report |-> FALSE]

\* No mention has been iterated over yet.
NoMention == [chat_id |-> 0, message |-> <<>>, skipped |-> FALSE, calls |-> <<>>,
              district_id |-> NoDistrict, raised |-> FALSE]

InitDispatch ==
    /\ activated = [r \in Recipients |-> TRUE]
    /\ lastConfirmed = [r \in Recipients |-> 0]
    /\ report = 1
    /\ pc = "idle"
    /\ batch = NoBatch
    /\ message_counter = 0
    /\ phase = 1
    /\ backoff_time = Scale
    /\ inflight = {}
    /\ log = <<>>
    /\ delivered = [r \in Recipients |-> [k \in 1..MaxReports |-> 0]]

InitPolling ==
    /\ answered = {}
    /\ runPc = "poll"
    /\ mentions = <<>>
    /\ handled = NoMention
    /\ marks = [c \in ChatIds |-> 0]
    /\ replies = [c \in ChatIds |-> 0]

\* No inbound message has been handled yet.
NoInbound == [platform_id |-> "none", has_body |-> FALSE, calls |-> <<>>]

\* The three report accounts of SingleCommandInterface were created before
\* the first data of any kind arrived.
InitReports ==
    /\ inbound = NoInbound
    /\ last_update = [kind \in Kinds |-> 0]
    /\ germany = [kind \in Kinds |-> 1]
    /\ written = [kind \in Kinds |-> [d \in 1..MaxReports |-> 0]]
    /\ daily_calls = <<>>

Init ==
    /\ InitDispatch
    /\ InitPolling
    /\ InitReports
    /\ no_write = FALSE

\* SingleCommandInterface is constructed with either setting of no_write.
InitRun ==
    /\ InitDispatch
    /\ InitPolling
    /\ InitReports
    /\ no_write \in BOOLEAN

\* ------------------------------------------------------------ dispatch task
\* send_daily_reports up to the first send: fetch the list, return when it
\* is empty, draw the initial delay.
send_daily_reports ==
    /\ pc = "idle"
    /\ LET unconfirmed_reports == get_unconfirmed_daily_reports IN
         /\ batch' = [op |-> "send_daily_reports", items |-> unconfirmed_reports,
                      append_report |-> FALSE]
         /\ log' = <<>>
         /\ message_counter' = 0
         /\ phase' = 1
         /\ IF unconfirmed_reports = <<>>
            THEN /\ pc' = "done"
                 /\ UNCHANGED backoff_time
            ELSE /\ pc' = "ready"
                 /\ \E d \in InitialDelays : backoff_time' = d
    /\ UNCHANGED <<runVars, tweetVars, inbound, activated, lastConfirmed, report, inflight, delivered>>

\* send_message up to the first send: an empty users argument means all users.
send_message(users, append_report) ==
    /\ pc = "idle"
    /\ batch' = [op |-> "send_message",
                 items |-> IF users = <<>> THEN get_all_user ELSE users,
                 append_report |-> append_report]
    /\ log' = <<>>
    /\ message_counter' = 0
    /\ phase' = 1
    /\ pc' = "ready"
    /\ \E d \in InitialDelays : backoff_time' = d
    /\ UNCHANGED <<runVars, tweetVars, inbound, activated, lastConfirmed, report, inflight, delivered>>

\* await bot.send_message(...): the send for the next item is handed to the transport.
SendBegin ==
    /\ pc = "ready"
    /\ ~batch_finished(message_counter, batch.items)
    /\ LET item == message_counter + 1 IN
         /\ inflight' = inflight \cup {<<item, phase>>}
         /\ log' = Append(log, [op |-> "send", send |-> <<item, phase>>,
                                user |-> batch.items[item]])
    /\ pc' = "sending"
    /\ UNCHANGED <<runVars, tweetVars, inbound, activated, lastConfirmed, report, batch, message_counter, phase,
                   backoff_time, delivered>>

\* send_daily_reports, from the result of a send to the end of the loop body.
DailySendReturns(success) ==
    /\ pc = "sending"
    /\ batch.op = "send_daily_reports"
    /\ LET item == message_counter + 1
           userid == batch.items[item]
           bt == backoff_timer(backoff_time, ~success, userid, <<item, phase>>)
           calls == <<[op |-> "returned", send |-> <<item, phase>>, ok |-> success]>>
                    \o confirm_calls(success, userid, <<item, phase>>) \o bt.calls
       IN /\ log' = log \o calls
          /\ activated' = ApplyDisable(activated, calls)
          /\ lastConfirmed' = ApplyConfirm(lastConfirmed, calls, report)
          /\ delivered' = IF success
                          THEN [delivered EXCEPT ![userid][report] = @ + 1]
                          ELSE delivered
          /\ backoff_time' = bt.ret
          /\ inflight' = inflight \ {<<item, phase>>}
    /\ message_counter' = next_item(message_counter)
    /\ pc' = "ready"
    /\ UNCHANGED <<runVars, tweetVars, inbound, report, batch, phase>>

\* send_message, from the result of a send to the next send (or the loop's end).
MessageSendReturns(success) ==
    /\ pc = "sending"
    /\ batch.op = "send_message"
    /\ LET item == message_counter + 1
           user == batch.items[item]
           bt == backoff_timer(backoff_time, ~success, user, <<item, phase>>)
           calls == <<[op |-> "returned", send |-> <<item, phase>>, ok |-> success]>>
                    \o bt.calls
       IN /\ log' = log \o calls
          /\ activated' = ApplyDisable(activated, calls)
          /\ backoff_time' = bt.ret
          /\ inflight' = inflight \ {<<item, phase>>}
    /\ IF phase = 1 /\ batch.append_report
       THEN /\ phase' = 2
            /\ UNCHANGED message_counter
       ELSE /\ phase' = 1
            /\ message_counter' = next_item(message_counter)
    /\ pc' = "ready"
    /\ UNCHANGED <<runVars, tweetVars, inbound, lastConfirmed, report, batch, delivered>>

\* restart_service: run supervisorctl, log a non-zero return code, return.
restart_service(returncode) ==
    /\ pc = "ready"
    /\ batch_finished(message_counter, batch.items)
    /\ log' = Append(log, [op |-> "restart_service", returncode |-> returncode,
                           error_logged |-> (returncode # 0)])
    /\ pc' = "done"
    /\ UNCHANGED <<runVars, tweetVars, inbound, activated, lastConfirmed, report, batch, message_counter, phase,
                   backoff_time, inflight, delivered>>

\* The operation returns to the periodic driver: its locals are gone.
Return ==
    /\ pc = "done"
    /\ pc' = "idle"
    /\ batch' = NoBatch
    /\ message_counter' = 0
    /\ phase' = 1
    /\ backoff_time' = Scale
    /\ log' = <<>>
    /\ UNCHANGED <<runVars, tweetVars, inbound, activated, lastConfirmed, report, inflight, delivered>>

\* message_handler: an inbound message from platform_id, with or without a
\* body; the directory calls it makes take effect.
message_handler(platform_id, has_body) ==
    /\ LET calls == handler_calls(platform_id, has_body, activated[platform_id]) IN
         /\ inbound' = [platform_id |-> platform_id, has_body |-> has_body, calls |-> calls]
         /\ activated' = ApplyEnable(activated, calls)
    /\ UNCHANGED <<runVars, tweetVars, lastConfirmed, report, pc, batch, message_counter, phase,
                   backoff_time, inflight, log, delivered>>

\* A data update publishes the next daily report (between two batches).
NewReport ==
    /\ pc = "idle"
    /\ report < MaxReports
    /\ report' = report + 1
    /\ UNCHANGED <<runVars, tweetVars, inbound, activated, lastConfirmed, pc, batch, message_counter, phase,
                   backoff_time, inflight, log, delivered>>

Next ==
    \/ send_daily_reports
    \/ \E users \in SeqsUpTo(Recipients, MaxBatch), append_report \in BOOLEAN :
          send_message(users, append_report)
    \/ SendBegin
    \/ \E success \in BOOLEAN : DailySendReturns(success)
    \/ \E success \in BOOLEAN : MessageSendReturns(success)
    \/ \E returncode \in {0, 1} : restart_service(returncode)
    \/ Return

\* The dispatch task alone, batch after batch, for one published report.
Spec == Init /\ [][Next]_vars

\* The periodic daily batches over several published reports, with the
\* message handler of the bot process running beside them (on messages with a
\* body: one without makes no call).
NextReports ==
    \/ send_daily_reports
    \/ SendBegin
    \/ \E success \in BOOLEAN : DailySendReturns(success)
    \/ \E returncode \in {0, 1} : restart_service(returncode)
    \/ Return
    \/ \E platform_id \in Recipients : message_handler(platform_id, TRUE)
    \/ NewReport

SpecReports == Init /\ [][NextReports]_vars

\* The daily batches for one published report, with inbound messages of
\* either sort, with and without a body, handled beside them.
NextInbound ==
    \/ send_daily_reports
    \/ SendBegin
    \/ \E success \in BOOLEAN : DailySendReturns(success)
    \/ \E returncode \in {0, 1} : restart_service(returncode)
    \/ Return
    \/ \E platform_id \in Recipients, has_body \in BOOLEAN : message_handler(platform_id, has_body)

SpecInbound == Init /\ [][NextInbound]_vars

\* --------------------------------------------- SingleCommandInterface.run()
\* Number of calls of one kind in a call sequence.
CountCalls(calls, ops) == Cardinality({k \in 1..Len(calls) : calls[k].op \in ops})

\* An external service that has not been asked yet answers nothing.
NoSearch == [i \in 1..3 |-> <<>>]
NoFind == [b \in BOOLEAN |-> <<>>]

\* The loop body's calls ask the region index for window size i.
SearchAsked(calls, i) ==
    \E k \in 1..Len(calls) : calls[k].op = "search_district_by_name" /\ calls[k].window = i

\* The loop body's calls ask the place lookup with the given restrict_type.
FindAsked(calls, b) ==
    \E k \in 1..Len(calls) : calls[k].op = "find_location" /\ calls[k].restrict_type = b

\* The answers a service can give to a call: any of its answers when the call
\* is made, and nothing to draw when it is not.
Answers(asked, results) == IF asked THEN results ELSE {<<>>}

\* get_mentions: the messenger reports a list of (chat_id, message) mentions.
get_mentions(ms) ==
    /\ runPc = "poll"
    /\ mentions' = ms
    /\ runPc' = "loop"
    /\ UNCHANGED <<dispatchVars, tweetVars, inbound, no_write, answered, handled, marks, replies>>

\* The loop body of run() for the next mention of the round.
run_mention ==
    /\ runPc = "loop"
    /\ mentions # <<>>
    /\ LET chat_id == Head(mentions).chat_id
           message == Head(mentions).message
       IN IF chat_id \in answered
          THEN /\ handled' = [chat_id |-> chat_id, message |-> message, skipped |-> TRUE,
                              calls |-> <<>>, district_id |-> NoDistrict, raised |-> FALSE]
               /\ mentions' = Tail(mentions)
               /\ UNCHANGED <<answered, runPc, marks, replies>>
          ELSE LET arguments == arguments_of(message)
                   Calls(search, find) ==
                       handle_mention(chat_id, arguments, search, find, no_write).calls
               IN
               \E s3 \in Answers(SearchAsked(Calls(NoSearch, NoFind), 3), SearchResults) :
               \E s2 \in Answers(SearchAsked(Calls([NoSearch EXCEPT ![3] = s3], NoFind), 2),
                                  SearchResults) :
               \E s1 \in Answers(SearchAsked(Calls([NoSearch EXCEPT ![3] = s3, ![2] = s2],
                                                    NoFind), 1),
                                  SearchResults) :
               LET search == [NoSearch EXCEPT ![3] = s3, ![2] = s2, ![1] = s1] IN
               \E f1 \in Answers(FindAsked(Calls(search, NoFind), FALSE), FindResults) :
               \E f2 \in Answers(FindAsked(Calls(search, [NoFind EXCEPT ![FALSE] = f1]), TRUE),
                                  FindResults) :
                 LET find == [NoFind EXCEPT ![FALSE] = f1, ![TRUE] = f2]
                     h == handle_mention(chat_id, arguments, search, find, no_write)
                 IN
                 /\ handled' = [chat_id |-> chat_id, message |-> message, skipped |-> FALSE,
                                calls |-> h.calls, district_id |-> h.district_id,
                                raised |-> h.raised]
                 /\ marks' = [marks EXCEPT
                                ![chat_id] = @ + CountCalls(h.calls, {"set_message_answered"})]
                 /\ replies' = [replies EXCEPT
                                  ![chat_id] = @ + CountCalls(h.calls, {"write_message", "print"})]
                 /\ answered' = IF CountCalls(h.calls, {"set_message_answered"}) > 0
                                THEN answered \cup {chat_id} ELSE answered
                 /\ IF h.raised
                    THEN runPc' = "raised" /\ UNCHANGED mentions
                    ELSE runPc' = "loop" /\ mentions' = Tail(mentions)
    /\ UNCHANGED <<dispatchVars, tweetVars, inbound, no_write>>

\* time.sleep(self.sleep_sec) at the end of a round.
run_sleep ==
    /\ runPc = "loop"
    /\ mentions = <<>>
    /\ runPc' = "poll"
    /\ handled' = NoMention
    /\ UNCHANGED <<dispatchVars, tweetVars, inbound, no_write, answered, mentions, marks, replies>>

\* The mentions a get_mentions call may report.
Mentions == [chat_id : ChatIds, message : MentionTexts]

NextRun ==
    \/ \E ms \in SeqsUpTo(Mentions, MaxMentions) : get_mentions(ms)
    \/ run_mention
    \/ run_sleep

\* The polling loop of SingleCommandInterface, with either setting of no_write.
SpecRun == InitRun /\ [][NextRun]_vars

\* ------------------------------ SingleCommandInterface.send_daily_reports
\* One call of send_daily_reports: without country data it raises ValueError;
\* otherwise the infections, the vaccinations and the ICU block run in this
\* order, each on its own account, date and write_message result.
SingleCommandInterface_send_daily_reports(has_data, write_ok) ==
    IF ~has_data
    THEN /\ daily_calls' = <<[op |-> "get_country_data", found |-> FALSE],
                             [op |-> "raise", error |-> "ValueError"]>>
         /\ UNCHANGED <<dispatchVars, inbound, runVars, last_update, germany, written>>
    ELSE LET Block(kind) == report_calls(kind, last_update[kind], germany[kind],
                                         no_write, write_ok[kind])
             calls == Block("infections") \o Block("vaccinations") \o Block("icu")
             Stored(kind) == \E k \in 1..Len(calls) :
                                calls[k].op = "set_last_update" /\ calls[k].kind = kind
             Written(kind) == \E k \in 1..Len(calls) :
                                 /\ calls[k].op = "write_message"
                                 /\ calls[k].kind = kind
                                 /\ calls[k].ok
         IN /\ daily_calls' = <<[op |-> "get_country_data", found |-> TRUE]>> \o calls
            /\ last_update' = [kind \in Kinds |->
                                  IF Stored(kind) THEN germany[kind] ELSE last_update[kind]]
            /\ written' = [kind \in Kinds |->
                               IF Written(kind)
                               THEN [written[kind] EXCEPT ![germany[kind]] = @ + 1]
                               ELSE written[kind]]
            /\ UNCHANGED <<dispatchVars, inbound, runVars, germany>>

\* A data update brings data of one kind with the next date.
NewData(kind) ==
    /\ germany[kind] < MaxReports
    /\ germany' = [germany EXCEPT ![kind] = @ + 1]
    /\ UNCHANGED <<dispatchVars, inbound, runVars, last_update, written, daily_calls>>

NextTweets ==
    \/ \E has_data \in BOOLEAN, write_ok \in [Kinds -> BOOLEAN] :
          SingleCommandInterface_send_daily_reports(has_data, write_ok)
    \/ \E kind \in Kinds : NewData(kind)

\* The scheduled runs of send_daily_reports of SingleCommandInterface, with
\* either setting of no_write, and the data updates between them.
SpecTweets == InitRun /\ [][NextTweets]_vars

\* ---------------------------------------------------------- claims: run()
\* C10 (as claimed): a mention that is not yet answered is marked answered
\* exactly once by the end of its processing, resolved or not, replied to or
\* not; an answered mention is skipped without lookup, reply or mark; and no
\* conversation id ever gets more than one reply.
C10_AnsweredExactlyOnce ==
    /\ handled.chat_id \in ChatIds =>
         IF handled.skipped
         THEN handled.calls = <<>>
         ELSE CountCalls(handled.calls, {"set_message_answered"}) = 1
    /\ \A c \in ChatIds : marks[c] <= 1 /\ replies[c] <= 1

\* The loop body ran for a mention that was not yet answered.
Handled == handled.chat_id \in ChatIds /\ ~handled.skipped

\* The calls of one kind the loop body made for the last mention, in order.
HandledCalls(ops) ==
    LET Is(c) == c.op \in ops IN SelectSeq(handled.calls, Is)

\* The loop body built a reply for the given district and wrote or printed it.
RepliedFor(district_id) ==
    /\ Len(HandledCalls({"get_infection_tweet"})) = 1
    /\ HandledCalls({"get_infection_tweet"})[1].district_id = district_id
    /\ Len(HandledCalls({"write_message", "print"})) = 1
    /\ HandledCalls({"write_message", "print"})[1].reply_id = handled.chat_id

\* The loop body built and wrote no reply.
NoReply == HandledCalls({"get_infection_tweet", "write_message", "print"}) = <<>>

\* C11: a mention whose text has more than three tokens, the first shorter
\* than four characters, resolves to no region: neither the region index nor
\* the place lookup is asked, no reply is built or written, and the mention is
\* marked answered.
C11_ShortNoisyDiscarded ==
    LET arguments == arguments_of(handled.message) IN
    (Handled /\ Len(arguments) > 3 /\ Len(arguments[1]) < 4) =>
        /\ HandledCalls({"search_district_by_name", "find_location"}) = <<>>
        /\ NoReply
        /\ handled.district_id = NoDistrict
        /\ ~handled.raised
        /\ Len(HandledCalls({"set_message_answered"})) = 1
        /\ handled.chat_id \in answered

\* C11 witness: the loop body ran for "ich bin da ja", four tokens after a first of length 3.
C11_Witness ==
    /\ Handled
    /\ Len(arguments_of(handled.message)) = 4
    /\ Len(arguments_of(handled.message)[1]) = 3
    /\ handled.chat_id \in answered

\* The loop body ran to its end for a mention that passed the discard test.
Looked == Handled /\ HandledCalls({"search_district_by_name"}) # <<>>

\* C12: the region index is asked with the first i tokens for i from
\* min(token count, 3) down to 1; a window answered with 0 or with 3 or more
\* candidates shrinks, and the first window answered with 1 or 2 candidates
\* ends the search with its first candidate as the region resolved.
C12_WindowShrinksToFirstMatch ==
    LET arguments == arguments_of(handled.message)
        searches == HandledCalls({"search_district_by_name"})
        last == searches[Len(searches)]
    IN Looked =>
        /\ \A k \in 1..Len(searches) :
              /\ searches[k].window = Min(Len(arguments), 3) - k + 1
              /\ searches[k].argument = join(SubSeq(arguments, 1, searches[k].window))
              /\ k < Len(searches) => searches[k].found \notin {1, 2}
        /\ last.found \notin {1, 2} => last.window = 1
        /\ last.found \in {1, 2} => handled.district_id = last.result[1]

C14_NameResolvesToItsRegion ==
    LET arguments == arguments_of(handled.message)
        searches == HandledCalls({"search_district_by_name"})
    IN (/\ Looked
        /\ searches[1].window = Len(arguments)
        /\ searches[1].found \in {1, 2}) =>
            /\ handled.district_id = searches[1].result[1]
            /\ RepliedFor(searches[1].result[1])

\* C15: the loop body never ends in an exception: every mention that was not
\* yet answered, one without any token included, is processed to the end and
\* marked answered.
C15_NeverRaises ==
    /\ runPc # "raised"
    /\ Handled => ~handled.raised /\ handled.chat_id \in answered

\* C19: the place lookup is asked only when the region index accepted no
\* candidate: once a window is answered with 1 or 2 candidates, find_location
\* is not called for the mention and the reply is built for the first
\* candidate of that window.
C19_NoPlaceLookupAfterIndexMatch ==
    LET searches == HandledCalls({"search_district_by_name"}) IN
    \A k \in 1..Len(searches) :
        (Handled /\ searches[k].found \in {1, 2}) =>
            /\ HandledCalls({"find_location"}) = <<>>
            /\ RepliedFor(searches[k].result[1])

\* ------------------------------------------------------- claims: dispatcher
\* Positions of the log holding a call of the given kind.
Events(op) == {k \in 1..Len(log) : log[k].op = op}

\* Positions of the log holding a call of the given kind made for one send.
EventsOf(op, send_id) == {k \in Events(op) : log[k].send = send_id}

\* The batch is one of send_daily_reports and has run to its end.
DailyBatchDone == pc = "done" /\ batch.op = "send_daily_reports"

\* Floor and ceiling of the delay: 0.1 s, the smallest floor the design names,
\* and 3 s, the largest delay new_backoff produces.
DelayFloor == Scale \div 10
DelayCeiling == 3 * Scale

\* C1: when a send_daily_reports batch has ended, there is exactly one send
\* attempt per input item, and every item was either confirmed (exactly when
\* its send returned success) or had its recipient disabled (exactly when its
\* send returned failure), never both and never neither.
C1_DailyAccounting ==
    DailyBatchDone =>
        /\ Cardinality(Events("send")) = Len(batch.items)
        /\ \A i \in 1..Len(batch.items) :
             LET id == <<i, 1>>
                 confirms == EventsOf("confirm_daily_report_send", id)
                 disables == EventsOf("disable_user", id)
             IN /\ Cardinality(EventsOf("send", id)) = 1
                /\ Cardinality(EventsOf("returned", id)) = 1
                /\ \A k \in EventsOf("send", id) : log[k].user = batch.items[i]
                /\ \A k \in confirms \cup disables : log[k].user = batch.items[i]
                /\ \A k \in EventsOf("returned", id) :
                     /\ log[k].ok <=> (Cardinality(confirms) = 1 /\ disables = {})
                     /\ ~log[k].ok <=> (Cardinality(disables) = 1 /\ confirms = {})

\* C1 witness: a finished daily batch of two items, one delivered and one disabled.
C1_Witness ==
    /\ DailyBatchDone
    /\ Len(batch.items) = 2
    /\ \E k \in Events("returned") : log[k].ok
    /\ \E k \in Events("returned") : ~log[k].ok

\* C2 (as claimed): after a failed send backoff_timer returns a delay strictly
\* greater than, and at least twice, the delay it was given.
C2_FailureAtLeastDoubles ==
    \A k \in Events("backoff_timer") :
        log[k].failed => (log[k].ret > log[k].cur /\ log[k].ret >= 2 * log[k].cur)

\* C3: after a successful send backoff_timer returns 0.7 times the prior delay
\* when that delay exceeds one second and the prior delay otherwise, so the
\* delay does not grow, and no disable_user call precedes it.
C3_SuccessDecays ==
    \A k \in Events("backoff_timer") :
        ~log[k].failed =>
            /\ log[k].cur > Scale => 10 * log[k].ret = 7 * log[k].cur
            /\ log[k].cur <= Scale => log[k].ret = log[k].cur
            /\ log[k].ret <= log[k].cur
            /\ EventsOf("disable_user", log[k].send) = {}

\* C3 witness: one batch saw a success above one second and one at or below it.
C3_Witness ==
    /\ \E k \in Events("backoff_timer") : ~log[k].failed /\ log[k].cur > Scale
    /\ \E k \in Events("backoff_timer") : ~log[k].failed /\ log[k].cur <= Scale

\* C4 (as claimed): while a batch runs, the current delay is at or above the
\* positive floor and at or below the ceiling.
C4_DelayWithinFloorAndCeiling ==
    pc \in {"ready", "sending"} =>
        (backoff_time >= DelayFloor /\ backoff_time <= DelayCeiling)

\* C5: every delay backoff_timer returns, which is also the duration of its
\* sleep, is greater than or equal to zero, and so is the batch's current delay.
C5_DelayNeverNegative ==
    /\ \A k \in Events("backoff_timer") : log[k].ret >= 0
    /\ \A k \in Events("sleep") : log[k].d >= 0
    /\ pc \in {"ready", "sending"} => backoff_time >= 0

\* C5 witness: a batch with a success and a failure whose failure returned 0.
C5_Witness ==
    /\ \E k \in Events("backoff_timer") : log[k].failed /\ log[k].ret = 0
    /\ \E k \in Events("backoff_timer") : ~log[k].failed

\* A send id comes before another in the order of the item list.
Before(a, b) == a[1] < b[1] \/ (a[1] = b[1] /\ a[2] < b[2])

\* C6: sends of a batch go out one at a time in the order of the item list:
\* at most one send is in flight, the m-th send of a daily batch is the send
\* for item m, a send starts only after every earlier send has returned and
\* had its confirm or disable recorded, and the confirm calls appear in item order.
C6_SequentialInOrder ==
    /\ Cardinality(inflight) <= 1
    /\ \A j, k \in Events("send") : j < k => Before(log[j].send, log[k].send)
    /\ batch.op = "send_daily_reports" =>
         \A k \in Events("send") :
            log[k].send[1] = Cardinality({j \in Events("send") : j <= k})
    /\ \A j, k \in Events("send") :
         j < k =>
            /\ \E r \in EventsOf("returned", log[j].send) : j < r /\ r < k
            /\ batch.op = "send_daily_reports" =>
                 \E o \in EventsOf("confirm_daily_report_send", log[j].send)
                          \cup EventsOf("disable_user", log[j].send) : j < o /\ o < k
    /\ \A j, k \in Events("confirm_daily_report_send") :
         j < k => Before(log[j].send, log[k].send)

\* C6 witness: a daily batch whose second send is in flight after the first was confirmed.
C6_Witness ==
    /\ batch.op = "send_daily_reports"
    /\ inflight = {<<2, 1>>}
    /\ EventsOf("confirm_daily_report_send", <<1, 1>>) # {}

\* The first position after k holding a send, or one past the end of the log.
NextSend(k) ==
    IF \E j \in Events("send") : j > k
    THEN CHOOSE j \in Events("send") : j > k /\ \A i \in Events("send") : i > k => j <= i
    ELSE Len(log) + 1

\* C7: every send that has returned is followed, before the next send, by
\* exactly one sleep; the sleep directly follows the backoff_timer computation
\* and lasts the newly computed delay, which is the batch's current delay; a
\* send still in flight has no sleep yet.  This covers the last item too.
C7_PauseAfterEverySend ==
    \A k \in Events("send") :
        LET sleeps == {j \in Events("sleep") : k < j /\ j < NextSend(k)}
        IN IF NextSend(k) <= Len(log) \/ pc # "sending"
           THEN /\ Cardinality(sleeps) = 1
                /\ \A j \in sleeps :
                     /\ log[j].send = log[k].send
                     /\ log[j - 1].op = "backoff_timer"
                     /\ log[j].d = log[j - 1].ret
                     /\ (NextSend(k) > Len(log) /\ pc = "ready") => backoff_time = log[j].d
           ELSE sleeps = {}

\* C7 witness: a finished batch with a successful and a failed send, each followed by a sleep.
C7_Witness ==
    /\ pc = "done"
    /\ \E k \in Events("returned") : log[k].ok
    /\ \E k \in Events("returned") : ~log[k].ok
    /\ Cardinality(Events("sleep")) >= 2

\* The sends a batch makes for its i-th item.
SendsOfItem(i) == IF batch.append_report THEN {<<i, 1>>, <<i, 2>>} ELSE {<<i, 1>>}

\* C8: restart_service runs at most once per batch, only as the last call and
\* only after every send of every item has returned and been paused for; a
\* batch that attempted a send and reached its end ran it exactly once,
\* whatever the sends returned; a non-zero return code is logged and the
\* operation still ends normally.
C8_RestartOnceAtEnd ==
    /\ Cardinality(Events("restart_service")) <= 1
    /\ \A k \in Events("restart_service") :
         /\ k = Len(log)
         /\ pc = "done"
         /\ log[k].error_logged <=> log[k].returncode # 0
         /\ \A i \in 1..Len(batch.items) : \A id \in SendsOfItem(i) :
               /\ \E r \in EventsOf("returned", id) : r < k
               /\ \E z \in EventsOf("sleep", id) : z < k
    /\ (pc = "done" /\ Events("send") # {}) => Cardinality(Events("restart_service")) = 1

\* C8 witness: a send_message batch with appended reports that had a failure
\* and whose restart command exited non-zero.
C8_Witness ==
    /\ pc = "done"
    /\ batch.op = "send_message"
    /\ batch.append_report
    /\ \E k \in Events("returned") : ~log[k].ok
    /\ \E k \in Events("restart_service") : log[k].returncode = 1

\* C8 witness for the other operation: a daily batch without any failure was restarted.
C8_WitnessDaily ==
    /\ DailyBatchDone
    /\ Events("send") # {}
    /\ \A k \in Events("returned") : log[k].ok
    /\ Events("restart_service") # {}

\* C9: no item still to be sent in a daily batch belongs to a recipient whose
\* delivery of the current report was confirmed, and no recipient has had more
\* than one successful send of the same report.
C9_ConfirmedNeverResent ==
    /\ (batch.op = "send_daily_reports" /\ pc \in {"ready", "sending"}) =>
         \A i \in (message_counter + 1)..Len(batch.items) :
            /\ lastConfirmed[batch.items[i]] < report
            /\ delivered[batch.items[i]][report] = 0
    /\ \A r \in Recipients : \A k \in 1..MaxReports : delivered[r][k] <= 1

\* C9 witness: a later batch for the second report is sending to one recipient
\* while another recipient, served for both reports, is not part of it.
C9_Witness ==
    /\ batch.op = "send_daily_reports"
    /\ pc = "sending"
    /\ report = 2
    /\ \E r \in Recipients :
         /\ delivered[r][1] = 1
         /\ delivered[r][2] = 1
         /\ \A i \in 1..Len(batch.items) : batch.items[i] # r

\* C16: in send_message with append_report the send of the report is
\* accounted like the send of the message: once it has returned it is followed
\* by its own backoff_timer call, given the delay the message send's call
\* returned, which disables the recipient exactly when the report send failed
\* and sleeps for the delay it returns; that delay is the one the next
\* recipient's first backoff_timer call is given.
C16_ReportSendAccounted ==
    (batch.op = "send_message" /\ batch.append_report) =>
        \A i \in 1..Len(batch.items) :
            \A r \in EventsOf("returned", <<i, 2>>) :
                /\ Cardinality(EventsOf("backoff_timer", <<i, 2>>)) = 1
                /\ Cardinality(EventsOf("sleep", <<i, 2>>)) = 1
                /\ Cardinality(EventsOf("disable_user", <<i, 2>>)) = (IF log[r].ok THEN 0 ELSE 1)
                /\ \A d \in EventsOf("disable_user", <<i, 2>>) : log[d].user = batch.items[i]
                /\ \A b \in EventsOf("backoff_timer", <<i, 2>>) :
                     /\ r < b
                     /\ log[b].failed = ~log[r].ok
                     /\ \A a \in EventsOf("backoff_timer", <<i, 1>>) : log[b].cur = log[a].ret
                     /\ \A d \in EventsOf("disable_user", <<i, 2>>) : r < d /\ d < b
                     /\ \A z \in EventsOf("sleep", <<i, 2>>) : b < z /\ log[z].d = log[b].ret
                     /\ \A n \in EventsOf("backoff_timer", <<i + 1, 1>>) : log[n].cur = log[b].ret
                     /\ b = Len(log) - 1 => backoff_time = log[b].ret

\* C16 witness: a finished send_message batch with append_report whose first
\* recipient's report send failed after the message send succeeded, followed
\* by the sends to a second recipient.
C16_Witness ==
    /\ pc = "done"
    /\ batch.op = "send_message"
    /\ batch.append_report
    /\ Len(batch.items) >= 2
    /\ \E r \in EventsOf("returned", <<1, 1>>) : log[r].ok
    /\ \E r \in EventsOf("returned", <<1, 2>>) : ~log[r].ok
    /\ EventsOf("backoff_timer", <<2, 1>>) # {}

\* C17: within one batch a disabled recipient is final: after a failed send
\* has disabled a recipient, no further send to that recipient is attempted in
\* the batch, send_message with append_report included.
C17_DisabledIsTerminal ==
    \A d \in Events("disable_user") :
        \A k \in Events("send") : k > d => log[k].user # log[d].user

\* Positions of the calls of one kind in the record of an inbound message.
InboundCalls(rec, op) == {k \in 1..Len(rec.calls) : rec.calls[k].op = op}

\* C18: a disabled recipient stays disabled until an inbound message with a
\* body from that recipient is handled; handling such a message from a
\* recipient that is not activated calls enable_user for it before
\* handle_input processes the text, and handling one from an activated
\* recipient does not call enable_user.
C18_EnabledOnlyByOwnMessage ==
    [][/\ \A r \in Recipients :
            (~activated[r] /\ activated'[r]) =>
                /\ inbound'.platform_id = r
                /\ inbound'.has_body
                /\ InboundCalls(inbound', "enable_user") # {}
       /\ (inbound' # inbound /\ inbound'.has_body) =>
            LET p == inbound'.platform_id
                enables == InboundCalls(inbound', "enable_user")
                inputs == InboundCalls(inbound', "handle_input")
            IN /\ Cardinality(inputs) = 1
               /\ \A k \in enables : inbound'.calls[k].user = p
               /\ \A k \in enables : \A j \in inputs : k < j
               /\ ~activated[p] => Cardinality(enables) = 1 /\ activated'[p]
               /\ activated[p] => enables = {} /\ activated'[p]
       /\ (inbound' # inbound /\ ~inbound'.has_body) => activated' = activated
      ]_vars

\* C18 witness: a recipient disabled by a failed daily report send has sent a
\* message with a body and is activated again.
C18_Witness ==
    /\ inbound.has_body
    /\ InboundCalls(inbound, "enable_user") # {}
    /\ InboundCalls(inbound, "handle_input") # {}
    /\ activated[inbound.platform_id]

\* The calls of one kind the last send_daily_reports of SingleCommandInterface
\* made in the block of one report kind.
DailyCalls(kind, op) ==
    {k \in 1..Len(daily_calls) : daily_calls[k].op = op /\ daily_calls[k].kind = kind}

\* C20: for each report kind on its own, a report is written only when the
\* stored last update is earlier than the date of the data; the last update
\* is set, to the date of the data, only after write_message returned success
\* or under no_write; a failed write leaves it behind the data, so that the
\* next run attempts the report again; and no report of a kind and data date
\* is ever written successfully twice.
C20_ReportsOncePerKindAndDate ==
    \A kind \in Kinds :
        /\ \A d \in 1..MaxReports :
              /\ written[kind][d] <= 1
              /\ written[kind][d] = 1 => last_update[kind] >= d
        /\ last_update[kind] <= germany[kind]
        /\ \A g \in DailyCalls(kind, "get_user") :
              LET stored == daily_calls[g].last_update
                  date == daily_calls[g].date
                  writes == DailyCalls(kind, "write_message")
                  sets == DailyCalls(kind, "set_last_update")
                  Failed == \E w \in writes : ~daily_calls[w].ok
              IN /\ Cardinality(writes) = (IF stored < date /\ ~no_write THEN 1 ELSE 0)
                 /\ \A w \in writes : daily_calls[w].date = date /\ g < w
                 /\ Cardinality(sets) = (IF stored < date /\ ~Failed THEN 1 ELSE 0)
                 /\ \A u \in sets : daily_calls[u].date = date
                 /\ \A u \in sets : \A w \in writes : w < u
                 /\ sets # {} => last_update[kind] = date
                 /\ sets = {} => last_update[kind] = stored
                 /\ Failed => last_update[kind] < date

\* C20 witness: in one run the infections report was written and stored, the
\* write of the vaccinations report failed, and the ICU report, stored in an
\* earlier run, was not written again.
C20_Witness ==
    /\ \E w \in DailyCalls("infections", "write_message") : daily_calls[w].ok
    /\ \E w \in DailyCalls("vaccinations", "write_message") : ~daily_calls[w].ok
    /\ last_update["vaccinations"] < germany["vaccinations"]
    /\ DailyCalls("icu", "get_user") # {}
    /\ DailyCalls("icu", "write_message") = {}
    /\ written["icu"][germany["icu"]] = 1

====
